---- MODULE Spec2Model ----
(***************************************************************************)
(* State-machine model of BioluminescenceModel                             *)
(* (src/backend/api/bioluminescence_model.py): the live ModelParameters,   *)
(* the calibration history, the validation buffer, and the operations      *)
(* predict, calibrate_parameters ("fit"), add_validation_data              *)
(* ("add_observation"), _retrain_from_validation_data and get_model_info,  *)
(* and the arithmetic of predict, max_distance, _uncertainty_analysis and  *)
(* _generate_failure_flags.                                                *)
(*                                                                         *)
(* Numbers are scaled integers, so that the floating point literals of the *)
(* source are exact:                                                       *)
(*   I0, Ea                          as written                            *)
(*   A, alpha0 .. alpha4             in thousandths  (0.015 is 15)         *)
(*   beta, gamma                     in tenths       (1.5 is 15)           *)
(*   k_sensor constants              in ten-thousandths (0.005 is 50)      *)
(*                                                                         *)
(* A call is a sequence of steps of the calling thread; every read or      *)
(* write of an attribute of the shared model object is a step of its own,  *)
(* which is the granularity at which Python threads interleave.            *)
(***************************************************************************)
EXTENDS Integers, Sequences, FiniteSets, TLC

(***************************************************************************)
(* Bounds of the model.                                                    *)
(***************************************************************************)
\* objective evaluations one fit may make after the one at the start point
MaxEvals == 2
\* the optimizer's trial points are RawCandidate(0) .. RawCandidate(MaxTrial)
MaxTrial == 1
\* objective values (mean absolute errors) are 0 .. MaxErr
MaxErr == 1
\* direct calibrate_parameters calls in one behaviour
MaxFits == 1
\* add_validation_data calls in one behaviour
MaxObs == 11
\* passes of _uncertainty_analysis's loop (n_samples = 100 in the source)
MaxSamples == 3
\* rows in the validation buffer when the arithmetic is followed
MaxHeld == 1
\* objective evaluations of one fit when the optimizer's own schedule is followed
\* (L-BFGS-B's default maxfun is 15000)
MaxFun == 52

(***************************************************************************)
(* Program constants.                                                      *)
(***************************************************************************)
\* len(self.validation_data) >= 10
RetrainThreshold == 10

\* options={'maxiter': 50}
MaxIter == 50

Threads == {"t1", "t2"}
MainThread == "t1"

\* objective_function's assignment order; also the key order of optimized_params
Calibrated == <<"I0", "A", "Ea", "alpha1", "alpha2", "alpha3", "gamma">>
CalibratedSet == {Calibrated[i] : i \in 1..Len(Calibrated)}

\* the order in which predict's pipeline reads self.params:
\* light_decay, environmental_attenuation, detection_threshold
ReadOrder ==
    <<"A", "Ea", "I0",
      "alpha0", "alpha1", "beta", "alpha2", "alpha3", "alpha4",
      "k_sensor", "gamma">>

DefaultKSensor == [human |-> 10, drone |-> 50, nvg |-> 5]

\* ModelParameters()
DefaultParameters ==
    [I0 |-> 10, A |-> 15, Ea |-> 50000,
     alpha0 |-> 2, alpha1 |-> 18, alpha2 |-> 25, alpha3 |-> 32, alpha4 |-> 8,
     beta |-> 12, k_sensor |-> DefaultKSensor, gamma |-> 15]

\* ModelParameters(I0=12.0, A=0.02, k_sensor={'custom': 0.003})
CustomParameters ==
    [DefaultParameters EXCEPT !.I0 = 12, !.A = 20, !.k_sensor = [custom |-> 30]]

\* bounds = [(8, 12), (0.01, 0.02), (40000, 60000), (0.01, 0.03), ...]
Bounds ==
    [I0 |-> <<8, 12>>, A |-> <<10, 20>>, Ea |-> <<40000, 60000>>,
     alpha1 |-> <<10, 30>>, alpha2 |-> <<15, 35>>, alpha3 |-> <<20, 40>>,
     gamma |-> <<10, 20>>]

\* the seven calibrated values of a ModelParameters record
Seven(p) == [f \in CalibratedSet |-> p[f]]

InBounds(v) == \A f \in CalibratedSet : Bounds[f][1] <= v[f] /\ v[f] <= Bounds[f][2]

(***************************************************************************)
(* scipy.optimize.minimize(objective_function, initial_params,             *)
(* bounds=bounds, method='L-BFGS-B', options={'maxiter': 50}), seen from   *)
(* the caller: a search that evaluates the objective at the start point    *)
(* and then at trial points of its own choice, every point projected onto  *)
(* the box, and that ends with a result (x, fun, success) whose x is its   *)
(* current iterate and whose fun is the objective value it saw there.  An  *)
(* iteration ends when the search moves to a new iterate; maxiter limits   *)
(* the iterations, and every iteration costs at least one evaluation of    *)
(* the objective (with the finite-difference gradient the code leaves to   *)
(* the optimizer, eight).  The trial points are drawn from a line through  *)
(* the box that leaves it at both ends, so that the projection acts.       *)
(***************************************************************************)
CandidateMid ==
    [I0 |-> 10, A |-> 15, Ea |-> 50000,
     alpha1 |-> 20, alpha2 |-> 25, alpha3 |-> 30, gamma |-> 15]

CandidateStep ==
    [I0 |-> 3, A |-> 8, Ea |-> 15000,
     alpha1 |-> 15, alpha2 |-> 15, alpha3 |-> 15, gamma |-> 8]

RawCandidate(i) == [f \in CalibratedSet |-> CandidateMid[f] + (i - 1) * CandidateStep[f]]

Clip(x, lo, hi) == IF x < lo THEN lo ELSE IF x > hi THEN hi ELSE x

\* a search without the bounds argument
ProjectUnbounded(v) == v

\* L-BFGS-B keeps the start point and every iterate inside bounds
Project(v) == [f \in CalibratedSet |-> Clip(v[f], Bounds[f][1], Bounds[f][2])]

NoVec == [f \in CalibratedSet |-> 0]
NoIterate == [x |-> NoVec, fun |-> -1, k |-> -1]
NoResult == [x |-> NoVec, fun |-> -1, success |-> FALSE]

\* the errors an empty table makes the first objective evaluation raise:
\* field_data['actual_distance'] on a frame without columns, or
\* mean_absolute_error on zero samples
EmptyTableErrors == {"KeyError", "ValueError"}

\* self.params.k_sensor['drone'] is evaluated before .get looks sensor_type up
HasDrone(k) == "drone" \in DOMAIN k

KSensorGet(k, s) == IF s \in DOMAIN k THEN k[s] ELSE k["drone"]

SensorTypes == {"human", "sonar"}

\* tables a caller hands to calibrate_parameters directly; a row is named by a
\* number, the rows add_validation_data receives are numbered 1, 2, ... as they come
DirectTables == {<< >>, <<0>>}

(***************************************************************************)
(* The arithmetic of the prediction pipeline, in fixed point:              *)
(*   intensities (I_current, I_threshold, ambient light)  in 0.0001 lux    *)
(*   attenuation c                                        in 0.001 per m   *)
(*   distances                                            in millimetres   *)
(*   times in minutes, temperatures in degrees Celsius, wind speed,        *)
(*   precipitation and wave height as written                              *)
(* Quotients round down.  exp is taken to the base 2 (the exponent counted *)
(* in whole halvings) and log to a thousandth, rounded away from zero, so  *)
(* that, as in floating point, the logarithm of a ratio other than 1 is    *)
(* not zero.                                                               *)
(***************************************************************************)
Max(a, b) == IF a >= b THEN a ELSE b
Min(a, b) == IF a <= b THEN a ELSE b

\* the floats nan, inf and -inf: what np.log returns for a negative ratio, for
\* the ratio n / 0 and for 0; np.clip and np.percentile pass nan on
NaN == -2000000001
Infinity == 2000000000
MinusInfinity == -2000000000

\* 2^(-h) * x, for the halvings an int can hold
Halve(x, h) == IF h > 30 THEN 0 ELSE x \div 2^h

\* Ea / (R * T_k) in halvings: R = 8.314, T_k = T + 273.15, ln 2 = 0.69315
ArrheniusHalvings(Ea, T) == (Ea * 100) \div ((57628 * (100 * T + 27315)) \div 10000)

\* I0 * np.exp(-A * np.exp(-Ea / (R * T_k)) * t)
Decay(I0, A, Ea, t, T) ==
    Halve(I0 * 10000, Halve((A * t) \div 693, ArrheniusHalvings(Ea, T)))

\* a decay with the sign of the exponent lost: the intensity grows with t
LightDecayGrowing(p, t, T) ==
    Max(2 * p.I0 * 10000 - Decay(p.I0, p.A, p.Ea, t, T), 0)

\* light_decay
LightDecay(p, t, T) == Max(Decay(p.I0, p.A, p.Ea, t, T), 0)

\* Uw ** beta, beta in tenths: the tenth root of Uw^beta
Pow(u, b) == CHOOSE r \in 0..Max(u, 1) : r^10 <= u^b /\ (r + 1)^10 > u^b

\* alpha0 + alpha1 * Uw ** beta + alpha2 * P + alpha3 * Hs + alpha4 * P * Hs
Attenuation(p, Uw, P, Hs) ==
    p.alpha0 + p.alpha1 * Pow(Uw, p.beta) + p.alpha2 * P + p.alpha3 * Hs
        + p.alpha4 * P * Hs

\* environmental_attenuation
EnvironmentalAttenuation(p, Uw, P, Hs) == Max(Attenuation(p, Uw, P, Hs), 1)

\* detection_threshold, for a mapping with a 'drone' key
DetectionThreshold(p, I_ambient, s) ==
    Max(KSensorGet(p.k_sensor, s) + (p.gamma * I_ambient) \div 10, 1)

\* the largest k with d * 2^k <= n
Log2Floor(n, d) == CHOOSE k \in 0..30 : n \div 2^k >= d /\ (k = 30 \/ n \div 2^(k + 1) < d)

\* 10000 * (z^j): z in ten-thousandths
RECURSIVE ZPow(_, _)
ZPow(z, j) == IF j = 1 THEN z ELSE (ZPow(z, j - 2) * ((z * z) \div 10000)) \div 10000

\* 1000 * ln(n / d) for n > d > 0: k ln 2 + 2 (z + z^3/3 + z^5/5 + z^7/7) with
\* n / d = 2^k m and z = (m - 1) / (m + 1)
LnAbove(n, d) ==
    LET k == Log2Floor(n, d)
        D == d * 2^k
        z == ((n - D) * 10000) \div (n + D)
    IN  (69315 * k) \div 100
          + (2 * (z + ZPow(z, 3) \div 3 + ZPow(z, 5) \div 5 + ZPow(z, 7) \div 7)) \div 10
          + 1

\* 1000 * ln(n / d), n > 0 and d > 0
Ln(n, d) ==
    IF n = d THEN 0
    ELSE IF n > d THEN LnAbove(n, d) ELSE 0 - LnAbove(d, n)

\* 1000 * np.log(n / d) in numpy's floats, n >= 0
LogRatio(n, d) ==
    IF d > 0 THEN (IF n = 0 THEN MinusInfinity ELSE Ln(n, d))
    ELSE IF d = 0 THEN (IF n = 0 THEN NaN ELSE Infinity)
    ELSE (IF n = 0 THEN MinusInfinity ELSE NaN)

\* a clip that has the lower limit only
ClipBelow(d) == IF d = NaN THEN NaN ELSE Max(d, 0)

\* np.clip(distance, 0.0, 10000.0)
ClipDistance(d) == IF d = NaN THEN NaN ELSE Clip(d, 0, 10000000)

\* (1.0 / c) * np.log(I_current / I_threshold), c # 0
Inversion(I, th, c) ==
    LET l == LogRatio(I, th) IN
    IF l = NaN THEN NaN
    ELSE IF l \in {Infinity, MinusInfinity} THEN (IF c > 0 THEN l ELSE 0 - l)
    ELSE (1000 * l) \div c

\* max_distance without its guard and its clip
MaxDistanceUnclipped(I, th, c) == Inversion(I, th, c)

\* max_distance
MaxDistance(I, th, c) ==
    IF I <= th THEN 0 ELSE ClipDistance(Inversion(I, th, c))

\* _calculate_performance_score, in hundredths of a percent
PerformanceScore(I, th, c, d) ==
    LET snr10 == IF th > 0 THEN (1000 * I) \div th ELSE 0
        attenuation_score == Max(0, 10000 - 100 * c)
        distance_score == Min(10000, d \div 100)
    IN  Clip((4 * Min(10000, snr10) + 3 * attenuation_score + 3 * distance_score)
                \div 10, 0, 10000)

\* an if / elif chain: the first condition that holds is the only flag
FirstFailureFlag(I, th, c, d) ==
    IF I < th THEN <<"Low brightness">>
    ELSE IF c > 50 THEN <<"Heavy attenuation">>
    ELSE IF d < 50000 THEN <<"Very short range">>
    ELSE IF I < 1000 THEN <<"Weak signal">>
    ELSE << >>

\* _generate_failure_flags
GenerateFailureFlags(I, th, c, d) ==
    LET f1 == IF I < th THEN <<"Low brightness">> ELSE << >>
        f2 == IF c > 50 THEN Append(f1, "Heavy attenuation") ELSE f1
        f3 == IF d < 50000 THEN Append(f2, "Very short range") ELSE f2
    IN  IF I < 1000 THEN Append(f3, "Weak signal") ELSE f3

\* f"{I_current:.1f}", f"{c:.4f}", f"{I_threshold:.3f}": tenths of a lux,
\* ten-thousandths per metre, thousandths of a lux
SystemConditions(I, c, th) == <<(I + 500) \div 1000, 10 * c, (th + 5) \div 10>>

\* a sequence with x put before the first element larger than it
RECURSIVE Insert(_, _)
Insert(x, s) ==
    IF s = << >> THEN <<x>>
    ELSE IF x <= Head(s) THEN <<x>> \o s
    ELSE <<Head(s)>> \o Insert(x, Tail(s))

\* np.percentile orders the data
RECURSIVE Sorted(_)
Sorted(s) == IF s = << >> THEN << >> ELSE Insert(Head(s), Sorted(Tail(s)))

\* 100 * np.percentile(a, q): linear interpolation between the order statistics
\* around position q / 100 * (n - 1)
Percentile(a, q) ==
    IF \E i \in 1..Len(a) : a[i] = NaN THEN NaN
    ELSE LET s == Sorted(a)
             pos == q * (Len(s) - 1)
             lo == pos \div 100 + 1
             hi == Min(lo + 1, Len(s))
             frac == pos % 100
         IN  s[lo] * (100 - frac) + s[hi] * frac

\* param_uncertainties, doubled: I0 0.5, A 0.002, Ea 2000, alpha1 0.005, ...
TwoSigma ==
    [I0 |-> 1, A |-> 4, Ea |-> 4000,
     alpha1 |-> 10, alpha2 |-> 16, alpha3 |-> 20, gamma |-> 4]

\* what one pass of the loop draws from the generator, in units of two standard
\* deviations: nothing, two above, two below, and a draw of gamma six below
NoiseDraws ==
    {[f \in CalibratedSet |-> 0], [f \in CalibratedSet |-> 1],
     [f \in CalibratedSet |-> -1],
     [f \in CalibratedSet |-> IF f = "gamma" THEN -3 ELSE 0]}

\* np.random.normal(loc, scale)
Normal(loc, twoscale, z) == loc + z * twoscale

\* sampled_params = ModelParameters(); sampled_params.I0 = np.random.normal(...)
SampledParameters(p, z) ==
    [f \in DOMAIN DefaultParameters |->
        IF f \in CalibratedSet THEN Normal(p[f], TwoSigma[f], z[f])
        ELSE DefaultParameters[f]]

\* sampled_params.k_sensor.get(sensor_type, 0.005)
KSensorGetOr(k, s, d) == IF s \in DOMAIN k THEN k[s] ELSE d

\* the body of the loop after the draws: I_current, c, I_threshold, distance
SampleOf(sp, cd, s) ==
    LET I == Decay(sp.I0, sp.A, sp.Ea, cd.activation_time, cd.water_temp)
        c == Attenuation(sp, cd.wind_speed, cd.precipitation, cd.wave_height)
        th == KSensorGetOr(sp.k_sensor, s, 50) + (sp.gamma * cd.ambient_light) \div 10
    IN  [I_current |-> I, c |-> c, I_threshold |-> th,
         distance |-> IF I > th /\ c > 0
                      THEN ClipDistance(Inversion(I, th, c)) ELSE 0]

\* the assignments of the loop go to self.params
LiveAfterSampleAliased(live, sp) == sp

\* the assignments of the loop go to sampled_params, an object of its own
LiveAfterSample(live, sp) == live

\* the median of the samples reported as the distance
ReportedMedian(d, ci) == ci[2]

\* 'distance': distance
Reported(d, ci) == d

\* predict's return value
PredictionResult(l, ds) ==
    LET ci == <<Percentile(ds, 5), Percentile(ds, 50), Percentile(ds, 95)>> IN
    [kind |-> "predict",
     distance |-> Reported(l.distance, ci),
     confidence_interval |-> ci,
     performance_score |-> PerformanceScore(l.I_current, l.I_threshold, l.c, l.distance),
     system_conditions |-> SystemConditions(l.I_current, l.c, l.I_threshold),
     failure_flags |-> GenerateFailureFlags(l.I_current, l.I_threshold, l.c, l.distance)]

VARIABLES
    params,               \* self.params
    calibration_history,  \* self.calibration_history
    validation_data,      \* self.validation_data
    dicts,                \* the parameter dictionaries allocated so far, by reference
    ctor,                 \* the parameters argument of the constructor
    pc,                   \* per thread: where it is in its call
    op,                   \* per thread: the call it makes or has just ended
    err,                  \* per thread: the exception that ended its call
    table,                \* per thread: field_data of calibrate_parameters
    trial,                \* per thread: params of objective_function
    idx,                  \* per thread: position in the assignment or read sequence
    iterate,              \* per thread: the optimizer's current iterate
    nevals,               \* per thread: objective evaluations of the running fit
    result,               \* per thread: minimize's return value
    optref,               \* per thread: reference of optimized_params
    snap,                 \* per thread: what predict has read of self.params
    sensor,               \* per thread: sensor_type of predict
    info,                 \* per thread: get_model_info's return value
    fitlog,               \* every calibrate_parameters call: its table and outcome
    nobs,                 \* add_validation_data calls made
    cond,                 \* the conditions a predict call is evaluated for
    local,                \* that call's I_current, c, I_threshold and distance
    sampled_params,       \* _uncertainty_analysis: sampled_params
    sample,               \* _uncertainty_analysis: I_current, c, I_threshold, distance
    distances,            \* _uncertainty_analysis: distances
    ret,                  \* what the evaluated call returned
    app,                  \* the application that holds the model: a main.py or none
    endpoint,             \* the request handler that is running
    response              \* what the last handler sent to its client

shared == <<params, calibration_history, validation_data, dicts, ctor>>
fitlocals == <<table, trial, idx, iterate, nevals, result, optref>>
locals == <<pc, op, err, table, trial, idx, iterate, nevals, result, optref, snap, sensor, info>>
vars == <<params, calibration_history, validation_data, dicts, ctor,
          pc, op, err, table, trial, idx, iterate, nevals, result, optref,
          snap, sensor, info, fitlog, nobs,
          cond, local, sampled_params, sample, distances, ret,
          app, endpoint, response>>

\* the variables of the HTTP layer
http == <<app, endpoint, response>>

\* the variables of a predict call that is followed through its arithmetic
evaluation == <<cond, local, sampled_params, sample, distances, ret>>

NoSnap == [f \in {ReadOrder[i] : i \in 1..Len(ReadOrder)} |-> 0]
NoInfo == [validation_data_count |-> -1, history_length |-> -1]

NoCond ==
    [activation_time |-> 0, water_temp |-> 0, wind_speed |-> 0,
     precipitation |-> 0, wave_height |-> 0, ambient_light |-> 0]
NoLocal == [I_current |-> 0, c |-> 0, I_threshold |-> 0, distance |-> 0]
NoRet == [kind |-> "none"]
NoResponse == [endpoint |-> "none", status |-> 0]

\* BioluminescenceModel.__init__(parameters)
Construct(c, p) ==
    /\ ctor = c
    /\ params = p
    /\ calibration_history = << >>
    /\ validation_data = << >>
    /\ dicts = << >>
    /\ pc = [t \in Threads |-> "idle"]
    /\ op = [t \in Threads |-> "none"]
    /\ err = [t \in Threads |-> "none"]
    /\ table = [t \in Threads |-> << >>]
    /\ trial = [t \in Threads |-> NoVec]
    /\ idx = [t \in Threads |-> 0]
    /\ iterate = [t \in Threads |-> NoIterate]
    /\ nevals = [t \in Threads |-> 0]
    /\ result = [t \in Threads |-> NoResult]
    /\ optref = [t \in Threads |-> 0]
    /\ snap = [t \in Threads |-> NoSnap]
    /\ sensor = [t \in Threads |-> "none"]
    /\ info = [t \in Threads |-> NoInfo]
    /\ fitlog = << >>
    /\ nobs = 0
    /\ cond = NoCond
    /\ local = NoLocal
    /\ sampled_params = DefaultParameters
    /\ sample = NoLocal
    /\ distances = << >>
    /\ ret = NoRet
    /\ endpoint = "none"
    /\ response = NoResponse

\* BioluminescenceModel() and BioluminescenceModel(ModelParameters(I0=12.0, ...))
Init ==
    /\ app = "none"
    /\ \/ Construct("default", DefaultParameters)
       \/ Construct("custom", CustomParameters)

Set(f, t, v) == [f EXCEPT ![t] = v]

\* a thread enters a call: its frame is fresh
Frame(t, o, p, tb, s) ==
    /\ pc' = Set(pc, t, p)
    /\ op' = Set(op, t, o)
    /\ err' = Set(err, t, "none")
    /\ table' = Set(table, t, tb)
    /\ trial' = Set(trial, t, NoVec)
    /\ idx' = Set(idx, t, 1)
    /\ iterate' = Set(iterate, t, NoIterate)
    /\ nevals' = Set(nevals, t, 0)
    /\ result' = Set(result, t, NoResult)
    /\ optref' = Set(optref, t, 0)
    /\ snap' = Set(snap, t, NoSnap)
    /\ sensor' = Set(sensor, t, s)

Begin(t, o, p, tb, s) ==
    /\ Frame(t, o, p, tb, s)
    /\ info' = Set(info, t, NoInfo)

\* the fitlog entry of the fit thread t is running
Running(t) == CHOOSE i \in 1..Len(fitlog) : fitlog[i].by = t /\ fitlog[i].outcome = "running"

IsFitting(t) == \E i \in 1..Len(fitlog) : fitlog[i].by = t /\ fitlog[i].outcome = "running"

\* an exception leaves the call: no frame on the way up handles it
Raise(t, e) ==
    /\ pc' = Set(pc, t, "idle")
    /\ err' = Set(err, t, e)
    /\ fitlog' = IF IsFitting(t)
                 THEN [fitlog EXCEPT ![Running(t)].outcome = "raised"]
                 ELSE fitlog

(***************************************************************************)
(* predict                                                                 *)
(***************************************************************************)
CallPredict(t) ==
    /\ pc[t] = "idle"
    /\ \E s \in SensorTypes : Begin(t, "predict", "pred_read", << >>, s)
    /\ UNCHANGED <<shared, fitlog, nobs>>
    /\ UNCHANGED <<evaluation, http>>

\* light_decay, environmental_attenuation and detection_threshold read
\* self.params attribute by attribute
PredictRead(t) ==
    /\ pc[t] = "pred_read"
    /\ LET f == ReadOrder[idx[t]] IN
       IF f = "k_sensor" /\ ~HasDrone(params.k_sensor)
       THEN /\ Raise(t, "KeyError")
            /\ UNCHANGED <<snap, idx>>
       ELSE /\ snap' = [snap EXCEPT ![t][f] =
                           IF f = "k_sensor"
                           THEN KSensorGet(params.k_sensor, sensor[t])
                           ELSE params[f]]
            /\ IF idx[t] = Len(ReadOrder)
               THEN pc' = Set(pc, t, "idle") /\ idx' = idx
               ELSE pc' = pc /\ idx' = Set(idx, t, idx[t] + 1)
            /\ UNCHANGED <<err, fitlog>>
    /\ UNCHANGED <<shared, op, table, trial, iterate, nevals, result, optref,
                   sensor, info, nobs>>
    /\ UNCHANGED <<evaluation, http>>

(***************************************************************************)
(* calibrate_parameters                                                    *)
(***************************************************************************)
DirectFits == {i \in 1..Len(fitlog) : ~fitlog[i].auto}

CallFit(t) ==
    /\ pc[t] = "idle"
    /\ Cardinality(DirectFits) < MaxFits
    /\ \E tb \in DirectTables :
          /\ Begin(t, "fit", "fit_init", tb, "none")
          /\ fitlog' = Append(fitlog, [by |-> t, rows |-> tb, auto |-> FALSE,
                                       outcome |-> "running", evals |-> 0,
                                       predicts |-> 0])
    /\ UNCHANGED <<shared, nobs>>
    /\ UNCHANGED <<evaluation, http>>

\* initial_params = [self.params.I0, ...]; minimize starts at their projection
FitInit(t) ==
    /\ pc[t] = "fit_init"
    /\ trial' = Set(trial, t, Project(Seven(params)))
    /\ idx' = Set(idx, t, 1)
    /\ pc' = Set(pc, t, "obj_write")
    /\ UNCHANGED <<shared, op, err, table, iterate, nevals, result, optref,
                   snap, sensor, info, fitlog, nobs>>
    /\ UNCHANGED <<evaluation, http>>

\* an objective that evaluates a candidate on a copy of the parameters
AssignScratch(p, f, v) == p

\* an objective that installs a fresh ModelParameters() carrying the candidate
AssignFresh(p, f, v) == [DefaultParameters EXCEPT ![f] = v]

\* self.params.<f> = params[i]
Assign(p, f, v) == [p EXCEPT ![f] = v]

\* objective_function: self.params.I0 = params[0] ... self.params.gamma = params[6]
ObjWrite(t) ==
    /\ pc[t] = "obj_write"
    /\ LET f == Calibrated[idx[t]] IN
       params' = Assign(params, f, trial[t][f])
    /\ IF idx[t] = Len(Calibrated)
       THEN pc' = Set(pc, t, "obj_eval") /\ idx' = Set(idx, t, 1)
       ELSE pc' = pc /\ idx' = Set(idx, t, idx[t] + 1)
    /\ UNCHANGED <<calibration_history, validation_data, dicts, ctor,
                   op, err, table, trial, iterate, nevals, result, optref,
                   snap, sensor, info, fitlog, nobs>>
    /\ UNCHANGED <<evaluation, http>>

\* an optimizer that moves to every point it has evaluated
AcceptsAny(it, x, f) ==
    IF it = NoIterate
    THEN {[x |-> x, fun |-> f, k |-> 0]}
    ELSE {it, [x |-> x, fun |-> f, k |-> it.k + 1]}

\* what the optimizer may do with the value f it is given for the point x
Accepts(it, x, f) ==
    IF it = NoIterate
    THEN {[x |-> x, fun |-> f, k |-> 0]}
    ELSE {it} \cup (IF f <= it.fun
                    THEN {[x |-> x, fun |-> f, k |-> it.k + 1]}
                    ELSE {})

\* objective_function: one predict per row, then mean_absolute_error; the value
\* goes back to the optimizer
ObjEval(t) ==
    /\ pc[t] = "obj_eval"
    /\ IF table[t] = << >>
       THEN /\ \E e \in EmptyTableErrors : Raise(t, e)
            /\ UNCHANGED <<iterate, nevals>>
       ELSE IF ~HasDrone(params.k_sensor)
       THEN /\ Raise(t, "KeyError")
            /\ UNCHANGED <<iterate, nevals>>
       ELSE /\ \E f \in 0..MaxErr :
                 \E it \in Accepts(iterate[t], trial[t], f) :
                    iterate' = Set(iterate, t, it)
            /\ nevals' = Set(nevals, t, nevals[t] + 1)
            /\ fitlog' = [fitlog EXCEPT ![Running(t)].evals = @ + 1,
                                        ![Running(t)].predicts = @ + Len(table[t])]
            /\ pc' = Set(pc, t, "opt_step")
            /\ err' = err
    /\ UNCHANGED <<shared, op, table, trial, idx, result, optref,
                   snap, sensor, info, nobs>>
    /\ UNCHANGED <<evaluation, http>>

\* an optimizer that is given no iteration cap
IterationsUnbounded(it) == TRUE

\* options={'maxiter': 50}: a further iteration is begun only below the cap
IterationsLeft(it) == it.k < MaxIter

\* the optimizer asks for the objective at another point
OptContinue(t) ==
    /\ pc[t] = "opt_step"
    /\ nevals[t] < 1 + MaxEvals
    /\ IterationsLeft(iterate[t])
    /\ \E i \in 0..MaxTrial : trial' = Set(trial, t, Project(RawCandidate(i)))
    /\ idx' = Set(idx, t, 1)
    /\ pc' = Set(pc, t, "obj_write")
    /\ UNCHANGED <<shared, op, err, table, iterate, nevals, result, optref,
                   snap, sensor, info, fitlog, nobs>>
    /\ UNCHANGED <<evaluation, http>>

\* the optimizer asks for the objective beside its iterate, for the gradient
\* the code does not supply; the finite-difference step is below the
\* resolution of the scaled integers
OptGradient(t) ==
    /\ pc[t] = "opt_step"
    /\ nevals[t] < MaxFun
    /\ IterationsLeft(iterate[t])
    /\ trial' = Set(trial, t, Project(iterate[t].x))
    /\ idx' = Set(idx, t, 1)
    /\ pc' = Set(pc, t, "obj_write")
    /\ UNCHANGED <<shared, op, err, table, iterate, nevals, result, optref,
                   snap, sensor, info, fitlog, nobs>>
    /\ UNCHANGED <<evaluation, http>>

\* minimize returns; optimized_params = {'I0': result.x[0], ...}
OptStop(t) ==
    /\ pc[t] = "opt_step"
    /\ \E s \in BOOLEAN :
          result' = Set(result, t, [x |-> iterate[t].x, fun |-> iterate[t].fun,
                                    success |-> s])
    /\ dicts' = Append(dicts, iterate[t].x)
    /\ optref' = Set(optref, t, Len(dicts) + 1)
    /\ idx' = Set(idx, t, 1)
    /\ pc' = Set(pc, t, "fit_install")
    /\ UNCHANGED <<params, calibration_history, validation_data, ctor,
                   op, err, table, trial, iterate, nevals,
                   snap, sensor, info, fitlog, nobs>>
    /\ UNCHANGED <<evaluation, http>>

\* the loop body skipped: the live value stays what objective_function left
InstalledValueStale(t, f) == params[f]

\* for key, value in optimized_params.items(): setattr(self.params, key, value)
InstalledValue(t, f) == dicts[optref[t]][f]

FitInstall(t) ==
    /\ pc[t] = "fit_install"
    /\ LET f == Calibrated[idx[t]] IN
       params' = [params EXCEPT ![f] = InstalledValue(t, f)]
    /\ IF idx[t] = Len(Calibrated)
       THEN pc' = Set(pc, t, "fit_record") /\ idx' = Set(idx, t, 1)
       ELSE pc' = pc /\ idx' = Set(idx, t, idx[t] + 1)
    /\ UNCHANGED <<calibration_history, validation_data, dicts, ctor,
                   op, err, table, trial, iterate, nevals, result, optref,
                   snap, sensor, info, fitlog, nobs>>
    /\ UNCHANGED <<evaluation, http>>

\* the record keeps optimized_params itself
RecordParametersAlias(ds, r) == r

\* 'parameters': optimized_params.copy() is a new dictionary
RecordParameters(ds, r) == Len(ds) + 1

\* a record that reports success whatever the optimizer said
CalibrationRecordSuccess(h, ref, r) ==
    [iteration |-> Len(h) + 1, parameters |-> ref, error |-> r.fun, success |-> TRUE]

\* {'iteration': len(self.calibration_history) + 1, 'parameters': ...,
\*  'error': result.fun, 'success': result.success}
CalibrationRecord(h, ref, r) ==
    [iteration |-> Len(h) + 1, parameters |-> ref, error |-> r.fun,
     success |-> r.success]

\* self.calibration_history.append({...}); return optimized_params
FitRecord(t) ==
    /\ pc[t] = "fit_record"
    /\ dicts' = Append(dicts, dicts[optref[t]])
    /\ calibration_history' =
          Append(calibration_history,
                 CalibrationRecord(calibration_history,
                                   RecordParameters(dicts, optref[t]), result[t]))
    /\ fitlog' = [fitlog EXCEPT ![Running(t)].outcome = "returned"]
    /\ pc' = Set(pc, t, IF op[t] = "add" THEN "add_clear" ELSE "idle")
    /\ UNCHANGED <<params, validation_data, ctor,
                   op, err, table, trial, idx, iterate, nevals, result, optref,
                   snap, sensor, info, nobs>>
    /\ UNCHANGED <<evaluation, http>>

\* the caller changes an entry of the dictionary calibrate_parameters returned
MutateReturned(t) ==
    /\ pc[t] = "idle" /\ op[t] = "fit" /\ err[t] = "none"
    /\ optref[t] # 0
    /\ dicts[optref[t]]["I0"] # 0
    /\ dicts' = [dicts EXCEPT ![optref[t]]["I0"] = 0]
    /\ UNCHANGED <<params, calibration_history, validation_data, ctor,
                   locals, fitlog, nobs>>
    /\ UNCHANGED <<evaluation, http>>

(***************************************************************************)
(* add_validation_data and _retrain_from_validation_data                   *)
(***************************************************************************)
\* a buffer that takes the new row at its front
PrependRow(buf, row) == <<row>> \o buf

\* self.validation_data.append(field_data)
AppendRow(buf, row) == Append(buf, row)

\* add_validation_data(field_data)
CallAdd(t) ==
    /\ pc[t] = "idle"
    /\ nobs < MaxObs
    /\ Begin(t, "add", "add_check", << >>, "none")
    /\ validation_data' = AppendRow(validation_data, nobs + 1)
    /\ nobs' = nobs + 1
    /\ UNCHANGED <<params, calibration_history, dicts, ctor, fitlog>>
    /\ UNCHANGED <<evaluation, http>>

\* if len(self.validation_data) >= 10: self._retrain_from_validation_data()
AddCheck(t) ==
    /\ pc[t] = "add_check"
    /\ pc' = Set(pc, t, IF Len(validation_data) >= RetrainThreshold
                        THEN "rt_check" ELSE "idle")
    /\ UNCHANGED <<shared, op, err, fitlocals, snap, sensor, info, fitlog, nobs>>
    /\ UNCHANGED <<evaluation, http>>

\* if len(self.validation_data) < 10: return
RetrainCheck(t) ==
    /\ pc[t] = "rt_check"
    /\ pc' = Set(pc, t, IF Len(validation_data) < RetrainThreshold
                        THEN "idle" ELSE "rt_frame")
    /\ UNCHANGED <<shared, op, err, fitlocals, snap, sensor, info, fitlog, nobs>>
    /\ UNCHANGED <<evaluation, http>>

\* df = pd.DataFrame(self.validation_data); self.calibrate_parameters(df)
RetrainFrame(t) ==
    /\ pc[t] = "rt_frame"
    /\ table' = Set(table, t, validation_data)
    /\ fitlog' = Append(fitlog, [by |-> t, rows |-> validation_data, auto |-> TRUE,
                                 outcome |-> "running", evals |-> 0,
                                       predicts |-> 0])
    /\ pc' = Set(pc, t, "fit_init")
    /\ UNCHANGED <<shared, op, err, trial, idx, iterate, nevals, result, optref,
                   snap, sensor, info, nobs>>
    /\ UNCHANGED <<evaluation, http>>

\* self.validation_data = []
AddClear(t) ==
    /\ pc[t] = "add_clear"
    /\ validation_data' = << >>
    /\ pc' = Set(pc, t, "idle")
    /\ UNCHANGED <<params, calibration_history, dicts, ctor,
                   op, err, fitlocals, snap, sensor, info, fitlog, nobs>>
    /\ UNCHANGED <<evaluation, http>>

(***************************************************************************)
(* get_model_info: 'calibration_history' of the returned dictionary is the *)
(* live list itself, the other entries are values                          *)
(***************************************************************************)
GetModelInfo(t) ==
    /\ pc[t] = "idle"
    /\ op[t] # "info"
    /\ Frame(t, "info", "idle", << >>, "none")
    /\ info' = Set(info, t, [validation_data_count |-> Len(validation_data),
                             history_length |-> Len(calibration_history)])
    /\ UNCHANGED <<shared, fitlog, nobs>>
    /\ UNCHANGED <<evaluation, http>>

(***************************************************************************)
(* predict, max_distance and _generate_failure_flags followed through      *)
(* their arithmetic.  The caller is one thread; what it computes is kept   *)
(* in cond, local, sampled_params, sample, distances and ret.              *)
(***************************************************************************)
\* ModelParameters(k_sensor={'human': 0.001, 'drone': 0.01, 'nvg': 0.0005})
RetunedParameters ==
    [DefaultParameters EXCEPT !.k_sensor = [human |-> 10, drone |-> 100, nvg |-> 5]]

\* the conditions predict is called with: the scenario of the tests, a calm
\* sea at activation, rain under 0.1 lux, and an ambient light at which the
\* default human threshold is the initial intensity
Conditions ==
    {[activation_time |-> 45, water_temp |-> 8, wind_speed |-> 1,
      precipitation |-> 2, wave_height |-> 1, ambient_light |-> 20],
     [activation_time |-> 0, water_temp |-> 8, wind_speed |-> 0,
      precipitation |-> 0, wave_height |-> 0, ambient_light |-> 20],
     [activation_time |-> 45, water_temp |-> 8, wind_speed |-> 0,
      precipitation |-> 2, wave_height |-> 0, ambient_light |-> 1000],
     [activation_time |-> 45, water_temp |-> 8, wind_speed |-> 1,
      precipitation |-> 0, wave_height |-> 0, ambient_light |-> 66660]}

\* the arguments max_distance and _generate_failure_flags are called with
Intensities == {0, 500, 1000, 100000}
Thresholds == {1, 1000, 150000}
Attenuations == {1, 50, 51}
Ranges == {0, 49999, 50000}

\* the locals of a call that is entered
Fresh(cd) ==
    /\ cond' = cd
    /\ local' = NoLocal
    /\ sampled_params' = DefaultParameters
    /\ sample' = NoLocal
    /\ distances' = << >>

\* predict(activation_time, ..., sensor_type)
EvalPredict(t) ==
    /\ pc[t] = "idle"
    /\ \E cd \in Conditions, s \in SensorTypes :
          /\ Begin(t, "predict", "light_decay", << >>, s)
          /\ Fresh(cd)
    /\ ret' = NoRet
    /\ UNCHANGED <<shared, fitlog, nobs>>
    /\ UNCHANGED http

\* a step of predict that computes one of its locals
Compute(t, next, l) ==
    /\ local' = l
    /\ pc' = Set(pc, t, next)
    /\ UNCHANGED <<shared, op, err, fitlocals, snap, sensor, info, fitlog, nobs,
                   cond, sampled_params, sample, distances, ret>>
    /\ UNCHANGED http

\* I_current = self.light_decay(activation_time, water_temp)
EvalLightDecay(t) ==
    /\ pc[t] = "light_decay"
    /\ Compute(t, "attenuation",
               [local EXCEPT !.I_current =
                   LightDecay(params, cond.activation_time, cond.water_temp)])

\* c = self.environmental_attenuation(wind_speed, precipitation, wave_height)
EvalAttenuation(t) ==
    /\ pc[t] = "attenuation"
    /\ Compute(t, "threshold",
               [local EXCEPT !.c =
                   EnvironmentalAttenuation(params, cond.wind_speed,
                                            cond.precipitation, cond.wave_height)])

\* I_threshold = self.detection_threshold(ambient_light, sensor_type)
EvalThreshold(t) ==
    /\ pc[t] = "threshold"
    /\ IF HasDrone(params.k_sensor)
       THEN Compute(t, "max_distance",
                    [local EXCEPT !.I_threshold =
                        DetectionThreshold(params, cond.ambient_light, sensor[t])])
       ELSE /\ Raise(t, "KeyError")
            /\ UNCHANGED <<shared, op, fitlocals, snap, sensor, info, nobs,
                           evaluation, http>>

\* distance = self.max_distance(I_current, I_threshold, c)
EvalMaxDistance(t) ==
    /\ pc[t] = "max_distance"
    /\ Compute(t, "uncertainty",
               [local EXCEPT !.distance =
                   MaxDistance(local.I_current, local.I_threshold, local.c)])

\* _uncertainty_analysis: one pass of the loop
UncertaintySample(t) ==
    /\ pc[t] = "uncertainty"
    /\ Len(distances) < MaxSamples
    /\ \E z \in NoiseDraws :
          LET sp == SampledParameters(params, z)
              sm == SampleOf(sp, cond, sensor[t])
          IN  /\ sampled_params' = sp
              /\ sample' = sm
              /\ distances' = Append(distances, sm.distance)
              /\ params' = LiveAfterSample(params, sp)
    /\ UNCHANGED <<calibration_history, validation_data, dicts, ctor,
                   locals, fitlog, nobs, cond, local, ret>>
    /\ UNCHANGED http

\* the percentiles, the score, the flags and the dictionary predict returns
PredictReturn(t) ==
    /\ pc[t] = "uncertainty"
    /\ Len(distances) = MaxSamples
    /\ ret' = PredictionResult(local, distances)
    /\ pc' = Set(pc, t, "idle")
    /\ UNCHANGED <<shared, op, err, fitlocals, snap, sensor, info, fitlog, nobs,
                   cond, local, sampled_params, sample, distances>>
    /\ UNCHANGED http

\* model.max_distance(I_current, I_threshold, c)
CallMaxDistance(t) ==
    /\ pc[t] = "idle"
    /\ Begin(t, "max_distance", "idle", << >>, "none")
    /\ \E I \in Intensities, th \in Thresholds, c \in Attenuations :
          ret' = [kind |-> "max_distance", I_current |-> I, I_threshold |-> th,
                  c |-> c, distance |-> MaxDistance(I, th, c)]
    /\ Fresh(NoCond)
    /\ UNCHANGED <<shared, fitlog, nobs>>
    /\ UNCHANGED http

\* model._generate_failure_flags(I_current, I_threshold, c, distance)
CallFailureFlags(t) ==
    /\ pc[t] = "idle"
    /\ Begin(t, "failure_flags", "idle", << >>, "none")
    /\ \E I \in Intensities, th \in Thresholds, c \in Attenuations, d \in Ranges :
          ret' = [kind |-> "failure_flags", I_current |-> I, I_threshold |-> th,
                  c |-> c, distance |-> d,
                  failure_flags |-> GenerateFailureFlags(I, th, c, d)]
    /\ Fresh(NoCond)
    /\ UNCHANGED <<shared, fitlog, nobs>>
    /\ UNCHANGED http

\* ModelParameters(Ea=0.0): the decay rate is A at every temperature
FastDecayParameters == [DefaultParameters EXCEPT !.Ea = 0]

\* the arguments light_decay is called with: minutes and degrees Celsius, in
\* and beyond the ranges the API accepts
Times == {0, 45, 60, 360, 50000000, 100000000}
Temperatures == {-2, 8, 30, 99}

\* model.light_decay(t, T)
CallLightDecay(t) ==
    /\ pc[t] = "idle"
    /\ Begin(t, "light_decay", "idle", << >>, "none")
    /\ \E tt \in Times, T \in Temperatures :
          ret' = [kind |-> "light_decay", t |-> tt, T |-> T,
                  intensity |-> LightDecay(params, tt, T)]
    /\ Fresh(NoCond)
    /\ UNCHANGED <<shared, fitlog, nobs>>
    /\ UNCHANGED http

EvalOp(t) ==
    \/ EvalPredict(t) \/ EvalLightDecay(t) \/ EvalAttenuation(t)
    \/ EvalThreshold(t) \/ EvalMaxDistance(t)
    \/ UncertaintySample(t) \/ PredictReturn(t)
    \/ CallMaxDistance(t) \/ CallFailureFlags(t)

PredictOp(t) == CallPredict(t) \/ PredictRead(t)

FitBody(t) ==
    \/ FitInit(t) \/ ObjWrite(t) \/ ObjEval(t)
    \/ OptContinue(t) \/ OptStop(t) \/ FitInstall(t) \/ FitRecord(t)

AddOp(t) ==
    \/ CallAdd(t) \/ AddCheck(t) \/ RetrainCheck(t) \/ RetrainFrame(t) \/ AddClear(t)

Step(t) ==
    \/ PredictOp(t)
    \/ CallFit(t) \/ FitBody(t) \/ MutateReturned(t)
    \/ AddOp(t)
    \/ GetModelInfo(t)

\* one caller: the calls follow one another
Next == Step(MainThread)

Spec == Init /\ [][Next]_vars

\* one thread calibrates while the others predict
NextTorn ==
    \/ CallFit(MainThread) \/ FitBody(MainThread)
    \/ \E t \in Threads \ {MainThread} : PredictOp(t)

SpecTorn == Init /\ [][NextTorn]_vars

\* a thread is inside minimize or the code of calibrate_parameters after it
Optimizing(t) == pc[t] \in {"obj_write", "obj_eval", "opt_step", "fit_install", "fit_record"}

\* every thread adds observations; the scheduler runs one optimization at a time,
\* and every other step of add_validation_data at any moment of it
NextDrain ==
    \E t \in Threads :
       \/ AddOp(t)
       \/ (\A u \in Threads \ {t} : ~Optimizing(u)) /\ FitBody(t)

SpecDrain == Init /\ [][NextDrain]_vars

\* one direct fit, followed through the optimizer's schedule of evaluations
NextEvals ==
    \/ CallFit(MainThread)
    \/ FitInit(MainThread) \/ ObjWrite(MainThread) \/ ObjEval(MainThread)
    \/ OptGradient(MainThread) \/ OptStop(MainThread)
    \/ FitInstall(MainThread) \/ FitRecord(MainThread)

SpecEvals == Init /\ [][NextEvals]_vars

\* the same under a scheduler that keeps running the calling thread
SpecEvalsFair == SpecEvals /\ WF_vars(NextEvals)

\* a model built with the default, the custom or the retuned parameters
InitPredict ==
    \/ Init
    \/ app = "none" /\ Construct("retuned", RetunedParameters)

\* one caller that adds observations, calibrates and then evaluates
NextPredict ==
    \/ EvalOp(MainThread)
    \/ (op[MainThread] \in {"none", "add"} /\ nobs < MaxHeld /\ CallAdd(MainThread))
    \/ AddCheck(MainThread)
    \/ (op[MainThread] \in {"none", "add"} /\ CallFit(MainThread))
    \/ FitBody(MainThread)

SpecPredict == InitPredict /\ [][NextPredict]_vars

\* a model built with the default, the custom or the fast-decaying parameters
InitDecay ==
    \/ Init
    \/ app = "none" /\ Construct("fast", FastDecayParameters)

\* one caller that calibrates and then asks for intensities
NextDecay ==
    \/ CallLightDecay(MainThread)
    \/ (op[MainThread] = "none" /\ CallFit(MainThread))
    \/ FitBody(MainThread)

SpecDecay == InitDecay /\ [][NextDecay]_vars

\* the parameters the model was constructed with
ctor_params ==
    IF ctor = "default" THEN DefaultParameters
    ELSE IF ctor = "custom" THEN CustomParameters
    ELSE IF ctor = "retuned" THEN RetunedParameters
    ELSE FastDecayParameters

AllIdle == \A t \in Threads : pc[t] = "idle"

Last(s) == s[Len(s)]
Range(s) == {s[i] : i \in 1..Len(s)}

\* the step in which calibrate_parameters appends its record and returns
FitReturns(t) == pc[t] = "fit_record" /\ pc'[t] # "fit_record"

\* thread t has ended a calibrate_parameters call, direct or through
\* add_validation_data, in which minimize returned
FitEnded(t) ==
    /\ pc[t] = "idle"
    /\ op[t] \in {"fit", "add"}
    /\ result[t] # NoResult

(***************************************************************************)
(* C1: when a calibrate_parameters call over a non-empty table returns,    *)
(* the seven live parameters equal the optimizer's final iterate, the      *)
(* dictionary the call returns and the snapshot of the record it has just  *)
(* appended, whatever the optimizer's success flag.                        *)
(***************************************************************************)
C1_FitInstallsFinalIterate ==
    [][\A t \in Threads :
          FitReturns(t) =>
             /\ table[t] # << >>
             /\ Seven(params') = iterate[t].x
             /\ dicts'[optref[t]] = Seven(params')
             /\ dicts'[Last(calibration_history').parameters] = Seven(params')
      ]_vars

\* a fit has returned without success, and the live parameters are its final
\* iterate although the last vector the objective installed was another one
C1_Witness ==
    /\ FitEnded(MainThread)
    /\ err[MainThread] = "none"
    /\ ~result[MainThread].success
    /\ trial[MainThread] # result[MainThread].x
    /\ Seven(params) = result[MainThread].x
    /\ dicts[Last(calibration_history).parameters] = Seven(params)

(***************************************************************************)
(* C2: once an add_validation_data call has ended, the buffer holds at     *)
(* most 9 rows, and it is empty if that call found 10 rows in it and ran   *)
(* the fit, also when that fit failed.                                     *)
(***************************************************************************)
C2_BufferDrained ==
    \A t \in Threads :
       (pc[t] = "idle" /\ op[t] = "add") =>
          /\ Len(validation_data) < RetrainThreshold
          /\ (table[t] # << >> => validation_data = << >>)

(***************************************************************************)
(* C3: after n add_validation_data calls from an empty buffer, n \div 10   *)
(* automatic fits have run, the j-th on the rows 10(j-1)+1 .. 10j in       *)
(* insertion order, each has appended its record, and the buffer holds     *)
(* n % 10 rows.                                                            *)
(***************************************************************************)
AutoFits == SelectSeq(fitlog, LAMBDA e : e.auto)

C3_OneFitPerTenRows ==
    pc[MainThread] = "idle" =>
       /\ Len(AutoFits) = nobs \div RetrainThreshold
       /\ \A j \in 1..Len(AutoFits) :
             /\ AutoFits[j].rows =
                   [i \in 1..RetrainThreshold |-> RetrainThreshold * (j - 1) + i]
             /\ AutoFits[j].outcome = "returned"
       /\ Len(validation_data) = nobs % RetrainThreshold

(***************************************************************************)
(* C4: a calibrate_parameters call with zero rows ends with the empty      *)
(* input error, and no step of it changes the parameters, the history or   *)
(* the buffer.                                                             *)
(***************************************************************************)
C4_EmptyFitRejected ==
    [][\A t \in Threads :
          (op[t] = "fit" /\ table[t] = << >> /\ pc[t] # "idle") =>
             /\ params' = params
             /\ calibration_history' = calibration_history
             /\ validation_data' = validation_data
             /\ (pc'[t] = "idle" => err'[t] = "EmptyInputError")
      ]_vars

(***************************************************************************)
(* C5: a calibrate_parameters call with zero rows never gets as far as the *)
(* optimizer: it is at its entry or it has ended, and the objective was    *)
(* never evaluated.                                                        *)
(***************************************************************************)
C5_EmptyFitFailsFast ==
    \A t \in Threads :
       (op[t] = "fit" /\ table[t] = << >>) =>
          /\ pc[t] \in {"fit_init", "idle"}
          /\ trial[t] = NoVec

ReturnedFits == {i \in 1..Len(fitlog) : fitlog[i].outcome = "returned"}

(***************************************************************************)
(* C6: a calibrate_parameters call in which the optimizer returns, with or *)
(* without convergence, raises nothing and appends exactly one record,     *)
(* whose success flag is the optimizer's and whose error is the            *)
(* optimizer's final objective value.                                      *)
(***************************************************************************)
C6_RecordPerFit ==
    /\ Len(calibration_history) = Cardinality(ReturnedFits)
    /\ \A t \in Threads :
          FitEnded(t) =>
             /\ err[t] = "none"
             /\ fitlog[Len(fitlog)].outcome = "returned"
             /\ Last(calibration_history).success = result[t].success
             /\ Last(calibration_history).error = result[t].fun
             /\ result[t].fun = iterate[t].fun

\* a fit whose optimizer did not converge has ended, and its record says so
C6_Witness ==
    /\ FitEnded(MainThread)
    /\ ~result[MainThread].success
    /\ result[MainThread].fun = MaxErr
    /\ Len(calibration_history) = 1
    /\ ~Last(calibration_history).success

(***************************************************************************)
(* C7: the calibration history only grows: no step shortens it, changes a  *)
(* record it holds or the parameter snapshot of one, and the record at     *)
(* position k has iteration k.                                             *)
(***************************************************************************)
C7_HistoryAppendOnly ==
    [][/\ Len(calibration_history') >= Len(calibration_history)
       /\ \A k \in 1..Len(calibration_history) :
             /\ calibration_history'[k] = calibration_history[k]
             /\ dicts'[calibration_history'[k].parameters] =
                   dicts[calibration_history[k].parameters]
       /\ \A k \in 1..Len(calibration_history') :
             calibration_history'[k].iteration = k
      ]_vars

\* two records; the dictionary the first fit returned was changed by its caller
\* afterwards, and model information has been read since
C7_Witness ==
    /\ Len(calibration_history) = 2
    /\ \E r \in 1..Len(dicts) : dicts[r]["I0"] = 0
    /\ dicts[calibration_history[1].parameters]["I0"] # 0
    /\ op[MainThread] = "info"

(***************************************************************************)
(* C8: between operations of a model built with the default parameters,    *)
(* each of the seven calibrated parameters lies in its bound interval, and *)
(* only the assignments inside calibrate_parameters change a parameter.    *)
(***************************************************************************)
C8_ParametersInBounds ==
    [][/\ (ctor = "default" /\ AllIdle') => InBounds(Seven(params'))
       /\ params' # params =>
             \E t \in Threads : pc[t] \in {"obj_write", "fit_install"}
      ]_vars

\* a fit has ended with calibrated parameters on the border of the box
C8_Witness ==
    /\ ctor = "default"
    /\ AllIdle
    /\ FitEnded(MainThread)
    /\ params.I0 = Bounds.I0[1]
    /\ params.gamma = Bounds.gamma[1]

(***************************************************************************)
(* C9: objective_function writes the live parameters on every evaluation,  *)
(* one attribute at a time: while it assigns, the attributes already       *)
(* assigned hold the trial vector's values, and at the evaluation all      *)
(* seven do.  A predict on another thread reads the live attributes one    *)
(* by one and can so compute with a vector that is neither the one before  *)
(* the fit nor the one the fit installs.                                   *)
(***************************************************************************)
C9_ObjectiveWritesLive ==
    \A t \in Threads :
       /\ pc[t] = "obj_write" =>
             \A i \in 1..(idx[t] - 1) : params[Calibrated[i]] = trial[t][Calibrated[i]]
       /\ pc[t] = "obj_eval" => Seven(params) = trial[t]

Candidates == {Project(RawCandidate(i)) : i \in 0..MaxTrial}

\* a predict has ended whose seven values are no vector the fit ever tried or
\* installed: some come from one trial vector and some from another
C9_Witness ==
    \E t \in Threads \ {MainThread} :
       /\ pc[t] = "idle" /\ op[t] = "predict" /\ err[t] = "none"
       /\ FitEnded(MainThread)
       /\ LET s == Seven(snap[t]) IN
          /\ s # Seven(DefaultParameters)
          /\ s # result[MainThread].x
          /\ s \notin Candidates
          /\ \E v, w \in Candidates :
                /\ v # w
                /\ \E f, g \in CalibratedSet :
                      /\ s[f] = v[f] /\ v[f] # w[f]
                      /\ s[g] = w[g] /\ w[g] # v[g]

(***************************************************************************)
(* C10: every observation add_validation_data has appended is still in the *)
(* buffer or was in the table of exactly one fit.                          *)
(***************************************************************************)
C10_AtomicDrain ==
    \A r \in 1..nobs :
       \/ r \in Range(validation_data)
       \/ Cardinality({i \in 1..Len(fitlog) : r \in Range(fitlog[i].rows)}) = 1

(***************************************************************************)
(* C11: no predict call ends with an exception.                            *)
(***************************************************************************)
C11_PredictNeverRaises ==
    \A t \in Threads :
       (pc[t] = "idle" /\ op[t] = "predict") => err[t] = "none"

\* the attributes of ModelParameters calibrate_parameters does not calibrate
Uncalibrated(p) == [f \in (DOMAIN p) \ CalibratedSet |-> p[f]]

(***************************************************************************)
(* C12: no step of a calibrate_parameters call changes alpha0, alpha4,     *)
(* beta or the k_sensor mapping, and no step of a call made directly       *)
(* changes the validation buffer.                                          *)
(***************************************************************************)
C12_FitFrame ==
    [][\A t \in Threads :
          IsFitting(t) =>
             /\ Uncalibrated(params') = Uncalibrated(params)
             /\ (op[t] = "fit" => validation_data' = validation_data)
      ]_vars

\* a direct fit over a non-empty buffer has returned and has moved the seven
C12_Witness ==
    /\ FitEnded(MainThread)
    /\ op[MainThread] = "fit"
    /\ err[MainThread] = "none"
    /\ Len(validation_data) >= 2
    /\ Seven(params) # Seven(DefaultParameters)
    /\ Uncalibrated(params) = Uncalibrated(DefaultParameters)

(***************************************************************************)
(* C20: a calibrate_parameters call evaluates the objective at most 50     *)
(* times, and every evaluation makes one predict call per row of the       *)
(* table.                                                                  *)
(***************************************************************************)
C20_AtMostFiftyEvaluations ==
    \A i \in 1..Len(fitlog) :
       /\ fitlog[i].evals <= 50
       /\ fitlog[i].predicts = fitlog[i].evals * Len(fitlog[i].rows)

\* the positions of a predict call that has not returned
PredictPcs ==
    {"pred_read", "light_decay", "attenuation", "threshold", "max_distance",
     "uncertainty"}

(***************************************************************************)
(* C13: no step of a predict call, the passes of the Monte Carlo loop      *)
(* included, changes a value of the parameters, the calibration history or *)
(* the validation buffer.                                                  *)
(***************************************************************************)
C13_PredictPure ==
    [][\A t \in Threads :
          (pc[t] \in PredictPcs \/ pc'[t] \in PredictPcs) =>
             /\ params' = params
             /\ calibration_history' = calibration_history
             /\ dicts' = dicts
             /\ validation_data' = validation_data
      ]_vars

\* predict has returned on a calibrated model that holds a record and a row;
\* its last sample was computed with parameters other than the live ones
C13_Witness ==
    /\ ret.kind = "predict"
    /\ Len(distances) = MaxSamples
    /\ Seven(sampled_params) # Seven(params)
    /\ Seven(params) # Seven(DefaultParameters)
    /\ Len(calibration_history) = 1
    /\ Len(validation_data) = 1

(***************************************************************************)
(* C14: max_distance returns 0 whenever the current intensity is at most   *)
(* the threshold, for every attenuation above 0; the distance predict      *)
(* reports is 0 exactly when the current intensity is at most the          *)
(* threshold, and that call ends without an error.                         *)
(***************************************************************************)
C14_ZeroAtOrBelowThreshold ==
    /\ (ret.kind = "max_distance" /\ ret.c > 0 /\ ret.I_current <= ret.I_threshold)
          => ret.distance = 0
    /\ pc[MainThread] = "uncertainty"
          => (local.distance = 0 <=> local.I_current <= local.I_threshold)
    /\ ret.kind = "predict"
          => /\ ret.distance = 0 <=> local.I_current <= local.I_threshold
             /\ err[MainThread] = "none"

\* predict has returned the distance 0 for an intensity equal to the threshold
C14_Witness ==
    /\ ret.kind = "predict"
    /\ local.I_current = local.I_threshold
    /\ local.I_current > 0
    /\ ret.distance = 0
    /\ err[MainThread] = "none"

\* a <= b on floats: false when either is nan
Leq(a, b) == a # NaN /\ b # NaN /\ a <= b

(***************************************************************************)
(* C15: the confidence interval of every predict result is ordered:        *)
(* ci[0] <= ci[1] <= ci[2].                                                *)
(***************************************************************************)
C15_IntervalOrdered ==
    ret.kind = "predict" =>
       /\ Leq(ret.confidence_interval[1], ret.confidence_interval[2])
       /\ Leq(ret.confidence_interval[2], ret.confidence_interval[3])

\* the distance the four pipeline functions return for the parameters p
PipelineDistance(p, cd, s) ==
    MaxDistance(LightDecay(p, cd.activation_time, cd.water_temp),
                DetectionThreshold(p, cd.ambient_light, s),
                EnvironmentalAttenuation(p, cd.wind_speed, cd.precipitation,
                                         cd.wave_height))

\* the live parameters with the seven sampled values in place of the live ones
LiveWithSample(p, sp) == [f \in DOMAIN p |-> IF f \in CalibratedSet THEN sp[f] ELSE p[f]]

(***************************************************************************)
(* C16: the distance of every Monte Carlo sample is what light_decay,      *)
(* environmental_attenuation, detection_threshold and max_distance return  *)
(* for the live parameters with the seven sampled values in place, and a   *)
(* sample drawn without noise is the point estimate of predict.            *)
(***************************************************************************)
C16_SampleIsPipeline ==
    (op[MainThread] = "predict" /\ Len(distances) > 0) =>
       /\ sample.distance =
             PipelineDistance(LiveWithSample(params, sampled_params), cond,
                              sensor[MainThread])
       /\ Seven(sampled_params) = Seven(params) => sample.distance = local.distance

(***************************************************************************)
(* C17: a predict call for a sensor type that is no key of the k_sensor    *)
(* mapping ends without an error, its threshold is the one                 *)
(* detection_threshold returns for 'drone', and every Monte Carlo sample   *)
(* takes the mapping's 'drone' constant for its threshold.                 *)
(***************************************************************************)
C17_UnknownSensorIsDrone ==
    (op[MainThread] = "predict" /\ sensor[MainThread] \notin DOMAIN params.k_sensor) =>
       /\ err[MainThread] = "none"
       /\ pc[MainThread] \in {"max_distance", "uncertainty"} =>
             local.I_threshold =
                DetectionThreshold(params, cond.ambient_light, "drone")
       /\ Len(distances) > 0 =>
             sample.I_threshold =
                params.k_sensor["drone"]
                   + (sampled_params.gamma * cond.ambient_light) \div 10

FlagOrder == <<"Low brightness", "Heavy attenuation", "Very short range", "Weak signal">>

\* the condition of each flag: current < threshold, attenuation > 0.05,
\* distance < 50, current < 0.1
FlagCondition(n, I, th, c, d) ==
    CASE n = "Low brightness" -> I < th
      [] n = "Heavy attenuation" -> c > 50
      [] n = "Very short range" -> d < 50000
      [] n = "Weak signal" -> I < 1000

ExpectedFlags(I, th, c, d) ==
    SelectSeq(FlagOrder, LAMBDA n : FlagCondition(n, I, th, c, d))

(***************************************************************************)
(* C18: the failure flags are the flags of FlagOrder whose own condition   *)
(* holds, in that order, for _generate_failure_flags called on any four    *)
(* values and for the flags of every predict result.                       *)
(***************************************************************************)
C18_FlagsIndependent ==
    /\ ret.kind = "failure_flags" =>
          ret.failure_flags =
             ExpectedFlags(ret.I_current, ret.I_threshold, ret.c, ret.distance)
    /\ ret.kind = "predict" =>
          ret.failure_flags =
             ExpectedFlags(local.I_current, local.I_threshold, local.c, local.distance)

\* the second and the fourth flag without the first and the third
C18_Witness ==
    /\ ret.kind = "failure_flags"
    /\ ret.failure_flags = <<"Heavy attenuation", "Weak signal">>

\* what predict reports apart from the confidence interval, as a function of
\* the parameters and the conditions
PointEstimate(p, cd, s) ==
    LET I == LightDecay(p, cd.activation_time, cd.water_temp)
        c == EnvironmentalAttenuation(p, cd.wind_speed, cd.precipitation,
                                      cd.wave_height)
        th == DetectionThreshold(p, cd.ambient_light, s)
        d == MaxDistance(I, th, c)
    IN  [distance |-> d,
         performance_score |-> PerformanceScore(I, th, c, d),
         system_conditions |-> SystemConditions(I, c, th),
         failure_flags |-> GenerateFailureFlags(I, th, c, d)]

(***************************************************************************)
(* C19: the distance, the performance score, the system conditions and the *)
(* failure flags of a predict result are determined by the conditions and  *)
(* the parameters: they are the same whatever the generator has drawn.     *)
(***************************************************************************)
C19_PointEstimateDeterministic ==
    ret.kind = "predict" =>
       LET e == PointEstimate(params, cond, sensor[MainThread]) IN
       /\ ret.distance = e.distance
       /\ ret.performance_score = e.performance_score
       /\ ret.system_conditions = e.system_conditions
       /\ ret.failure_flags = e.failure_flags

\* a result whose samples differ from one another and whose median is not the
\* reported distance
C19_Witness ==
    /\ ret.kind = "predict"
    /\ ret.distance > 0
    /\ \E i, j \in 1..Len(distances) : distances[i] # distances[j]
    /\ ret.confidence_interval[2] # NaN
    /\ ret.confidence_interval[2] # 100 * ret.distance

(***************************************************************************)
(* C21: every calibrate_parameters call over a non-empty table ends, by     *)
(* returning or by raising, and the optimizer has then made at most 50     *)
(* iterations; a running call ends in no other way than by the return that *)
(* follows minimize or by an exception of the objective.                   *)
(***************************************************************************)
C21_FitTerminates ==
    /\ \A t \in Threads : IsFitting(t) ~> ~IsFitting(t)
    /\ [](\A t \in Threads : iterate[t].k <= MaxIter)
    /\ [][\A t \in Threads :
             IsFitting(t) /\ ~IsFitting(t)' =>
                \/ pc[t] = "fit_record" /\ result[t] # NoResult
                \/ pc[t] = "obj_eval" /\ err'[t] # "none"
         ]_vars

\* a fit over a row has returned after the optimizer's fiftieth iteration
C21_Witness ==
    /\ FitEnded(MainThread)
    /\ err[MainThread] = "none"
    /\ table[MainThread] # << >>
    /\ iterate[MainThread].k = MaxIter
    /\ Last(fitlog).outcome = "returned"

(***************************************************************************)
(* C23: an add_validation_data call that finds fewer than 9 rows in the    *)
(* buffer puts its row behind them, so the buffer is one row longer, and   *)
(* returns after the length check: it starts no calibrate_parameters call *)
(* and leaves the parameters, the parameter dictionaries and the          *)
(* calibration history as they were.                                       *)
(***************************************************************************)
C23_AddBelowThresholdFrame ==
    [][\A t \in Threads :
          /\ (pc[t] = "idle" /\ pc'[t] = "add_check" /\ Len(validation_data) < 9) =>
                /\ Len(validation_data') = Len(validation_data) + 1
                /\ Last(validation_data') = nobs'
                /\ SubSeq(validation_data', 1, Len(validation_data)) = validation_data
                /\ UNCHANGED <<params, calibration_history, dicts, fitlog>>
          /\ (pc[t] = "add_check" /\ pc'[t] # "add_check"
                 /\ Len(validation_data) <= 9) =>
                /\ pc'[t] = "idle"
                /\ err'[t] = "none"
                /\ UNCHANGED <<shared, fitlog>>
      ]_vars

\* after a calibration, the ninth row has been added and no fit was run for it
C23_Witness ==
    /\ pc[MainThread] = "idle"
    /\ op[MainThread] = "add"
    /\ Len(validation_data) = 9
    /\ Last(validation_data) = nobs
    /\ Len(calibration_history) = 1
    /\ Len(fitlog) = 1
    /\ Seven(params) # Seven(DefaultParameters)

(***************************************************************************)
(* C25: every record of the calibration history carries the five fields   *)
(* iteration, parameters, error, success and timestamp.                    *)
(***************************************************************************)
C25_RecordHasFiveFields ==
    \A i \in 1..Len(calibration_history) :
       {"iteration", "parameters", "error", "success", "timestamp"}
          \subseteq DOMAIN calibration_history[i]

(***************************************************************************)
(* C24: the distance of every predict result and every value max_distance  *)
(* returns is a number between 0 and 10000 metres, for intensities from 0  *)
(* up, thresholds and attenuations from their floors up, and the           *)
(* parameters of every state.                                              *)
(***************************************************************************)
C24_DistanceInRange ==
    /\ ret.kind \in {"predict", "max_distance"} =>
          ret.distance # NaN /\ ret.distance >= 0 /\ ret.distance <= 10000000
    /\ pc[MainThread] = "uncertainty" =>
          local.distance # NaN /\ local.distance >= 0 /\ local.distance <= 10000000

\* max_distance has returned 10000 metres where the inversion gives more
C24_Witness ==
    /\ ret.kind = "max_distance"
    /\ ret.distance = 10000000
    /\ Inversion(ret.I_current, ret.I_threshold, ret.c) > 10000000

(***************************************************************************)
(* C26: of two light_decay calls at the same temperature and under the     *)
(* same parameters, the one with the later activation time returns no      *)
(* more than the other, and no call returns a negative intensity.          *)
(***************************************************************************)
C26_LightDecayMonotone ==
    [][/\ (/\ op[MainThread] = "light_decay" /\ ret.kind = "light_decay"
            /\ op'[MainThread] = "light_decay" /\ ret'.kind = "light_decay"
            /\ params' = params /\ params.A >= 0 /\ params.I0 >= 0
            /\ ret'.T = ret.T) =>
              /\ ret'.t > ret.t => ret'.intensity <= ret.intensity
              /\ ret'.t < ret.t => ret'.intensity >= ret.intensity
       /\ ret'.kind = "light_decay" => ret'.intensity >= 0
      ]_vars

\* a call has returned less than the initial intensity, and more than nothing
C26_Witness ==
    /\ op[MainThread] = "light_decay"
    /\ ret.kind = "light_decay"
    /\ ret.t > 0
    /\ ret.intensity > 0
    /\ ret.intensity < params.I0 * 10000

(***************************************************************************)
(* A calibration over rows that carry their conditions: the objective is   *)
(* followed through its arithmetic.                                        *)
(***************************************************************************)
\* the row a caller builds from predict(**test_params)['distance']
PredictedRow(p, cd, s) ==
    [cond |-> cd, sensor_type |-> s, actual_distance |-> PipelineDistance(p, cd, s)]

\* the tables of one and of two such rows
PredictedTables(p) ==
    LET rows == {PredictedRow(p, cd, s) : cd \in Conditions, s \in SensorTypes}
    IN  {<<r>> : r \in rows} \cup {<<r, q>> : r \in rows, q \in rows}

RECURSIVE AbsoluteErrors(_, _)
\* sum of |actual_distance - prediction| over the rows
AbsoluteErrors(tb, p) ==
    IF tb = << >> THEN 0
    ELSE LET r == Head(tb)
             d == PipelineDistance(p, r.cond, r.sensor_type)
         IN  (IF d >= r.actual_distance THEN d - r.actual_distance
              ELSE r.actual_distance - d) + AbsoluteErrors(Tail(tb), p)

\* mean_absolute_error(field_data['actual_distance'], predictions)
MeanAbsoluteError(tb, p) == AbsoluteErrors(tb, p) \div Len(tb)

\* calibrate_parameters(pd.DataFrame(field_data)), the rows made by predict
\* under the current parameters
CallFitPredicted(t) ==
    /\ pc[t] = "idle"
    /\ Cardinality(DirectFits) < MaxFits
    /\ HasDrone(params.k_sensor)
    /\ \E tb \in PredictedTables(params) :
          /\ Begin(t, "fit", "fit_init", tb, "none")
          /\ fitlog' = Append(fitlog, [by |-> t, rows |-> tb, auto |-> FALSE,
                                       outcome |-> "running", evals |-> 0,
                                       predicts |-> 0])
    /\ UNCHANGED <<shared, nobs>>
    /\ UNCHANGED <<evaluation, http>>

\* objective_function over such rows: the value is the mean absolute error of
\* the live parameters, which the writes before it have set to the trial point
ObjEvalRows(t) ==
    /\ pc[t] = "obj_eval"
    /\ \E it \in Accepts(iterate[t], trial[t], MeanAbsoluteError(table[t], params)) :
          iterate' = Set(iterate, t, it)
    /\ nevals' = Set(nevals, t, nevals[t] + 1)
    /\ fitlog' = [fitlog EXCEPT ![Running(t)].evals = @ + 1,
                                ![Running(t)].predicts = @ + Len(table[t])]
    /\ pc' = Set(pc, t, "opt_step")
    /\ UNCHANGED <<shared, op, err, table, trial, idx, result, optref,
                   snap, sensor, info, nobs>>
    /\ UNCHANGED <<evaluation, http>>

\* one calibration over rows predicted under the current parameters
NextRoundTrip ==
    \/ CallFitPredicted(MainThread)
    \/ FitInit(MainThread) \/ ObjWrite(MainThread) \/ ObjEvalRows(MainThread)
    \/ OptContinue(MainThread) \/ OptStop(MainThread)
    \/ FitInstall(MainThread) \/ FitRecord(MainThread)

SpecRoundTrip == InitPredict /\ [][NextRoundTrip]_vars

(***************************************************************************)
(* C22: when the rows of a calibration hold the distances predict gives    *)
(* under the parameters the calibration starts from, the error it records  *)
(* is zero, which is the error at the start, and under the parameters it   *)
(* installs every row's distance is predicted again.                       *)
(***************************************************************************)
C22_RoundTrip ==
    (FitEnded(MainThread) /\ err[MainThread] = "none") =>
       /\ Last(calibration_history).error = 0
       /\ result[MainThread].fun <= MeanAbsoluteError(table[MainThread], ctor_params)
       /\ \A i \in 1..Len(table[MainThread]) :
             LET r == table[MainThread][i] IN
             PipelineDistance(params, r.cond, r.sensor_type) = r.actual_distance

\* the optimizer was given a point with a positive error, which it left, and
\* the calibration has installed a vector other than the one it started from
C22_Witness ==
    /\ FitEnded(MainThread)
    /\ err[MainThread] = "none"
    /\ nevals[MainThread] = 1 + MaxEvals
    /\ MeanAbsoluteError(table[MainThread],
                         [params EXCEPT !.I0 = Project(RawCandidate(0)).I0]) > 0
    /\ Seven(params) # Seven(ctor_params)
    /\ Len(table[MainThread]) = 2

(***************************************************************************)
(* The HTTP layer: api/main.py and backend/api/main.py hold one model      *)
(* each, built with BioluminescenceModel().  The handlers are coroutines   *)
(* without an await, so a request is handled to its end before the next.   *)
(* A response is the status the client receives, the exception that was    *)
(* raised inside the handler's try block, and the body.                    *)
(***************************************************************************)
Apps == {"api", "backend"}

NoBody == << >>

\* the sensor types DetectionInput accepts
ApiSensorTypes == {"human", "drone", "nvg"}

\* model = BioluminescenceModel()
InitApi ==
    /\ app \in Apps
    /\ Construct("default", DefaultParameters)

\* except Exception as e: raise HTTPException(status_code=500, detail=...)
ExceptException(e, raised) ==
    [endpoint |-> e, status |-> 500, raised |-> raised, body |-> NoBody]

\* the handler returns its response model
Returned(e, b) == [endpoint |-> e, status |-> 200, raised |-> "none", body |-> b]

\* a request that leaves the handler inside the model
Entered(e) ==
    /\ endpoint' = e
    /\ response' = NoResponse

\* a request that leaves the handler with the response r
Answered(r) ==
    /\ endpoint' = "none"
    /\ response' = r

\* POST /predict: validate_json_input, then model.predict(**model_input)
PostPredict(t) ==
    /\ pc[t] = "idle" /\ endpoint = "none"
    /\ \E is_valid \in BOOLEAN :
          IF is_valid
          THEN /\ \E s \in ApiSensorTypes : Begin(t, "predict", "pred_read", << >>, s)
               /\ Entered("predict")
          ELSE /\ Answered(ExceptException("predict", "HTTPException(400)"))
               /\ UNCHANGED locals
    /\ UNCHANGED <<shared, fitlog, nobs, evaluation, app>>

\* return PredictionResponse(**result)
PredictRespond(t) ==
    /\ pc[t] = "idle" /\ endpoint = "predict"
    /\ Answered(IF err[t] = "none" THEN Returned("predict", NoBody)
                ELSE ExceptException("predict", err[t]))
    /\ UNCHANGED <<shared, locals, fitlog, nobs, evaluation, app>>

\* POST /calibrate: the valid records go to model.calibrate_parameters(df); if
\* not field_data: raise HTTPException(status_code=400, ...)
PostCalibrate(t) ==
    /\ pc[t] = "idle" /\ endpoint = "none"
    /\ \E tb \in DirectTables :
          IF tb = << >>
          THEN /\ Answered(ExceptException("calibrate", "HTTPException(400)"))
               /\ UNCHANGED <<locals, fitlog>>
          ELSE /\ Cardinality(DirectFits) < MaxFits
               /\ Begin(t, "fit", "fit_init", tb, "none")
               /\ fitlog' = Append(fitlog, [by |-> t, rows |-> tb, auto |-> FALSE,
                                            outcome |-> "running", evals |-> 0,
                                            predicts |-> 0])
               /\ Entered("calibrate")
    /\ UNCHANGED <<shared, nobs, evaluation, app>>

\* one predict per row for the error, then
\* return CalibrationResponse(success=True, optimized_parameters=..., ...)
PostCalibrateResponse(t) ==
    /\ pc[t] = "idle" /\ endpoint = "calibrate"
    /\ Answered(IF err[t] # "none" THEN ExceptException("calibrate", err[t])
                ELSE IF ~HasDrone(params.k_sensor)
                THEN ExceptException("calibrate", "KeyError")
                ELSE Returned("calibrate",
                              [success |-> TRUE,
                               optimized_parameters |-> dicts[optref[t]],
                               iterations |-> Last(calibration_history).iteration]))
    /\ UNCHANGED <<shared, locals, fitlog, nobs, evaluation, app>>

\* POST /validation/add: validate_json_input, then model.add_validation_data
PostValidationAdd(t) ==
    /\ pc[t] = "idle" /\ endpoint = "none"
    /\ \E is_valid \in BOOLEAN :
          IF is_valid
          THEN /\ nobs < MaxObs
               /\ Begin(t, "add", "add_check", << >>, "none")
               /\ validation_data' = AppendRow(validation_data, nobs + 1)
               /\ nobs' = nobs + 1
               /\ Entered("validation_add")
          ELSE /\ Answered(ExceptException("validation_add", "HTTPException(400)"))
               /\ UNCHANGED <<locals, validation_data, nobs>>
    /\ UNCHANGED <<params, calibration_history, dicts, ctor, fitlog, evaluation, app>>

\* return {"message": ..., "validation_data_count": len(model.validation_data), ...}
PostValidationAddResponse(t) ==
    /\ pc[t] = "idle" /\ endpoint = "validation_add"
    /\ Answered(IF err[t] = "none"
                THEN Returned("validation_add",
                              [validation_data_count |-> Len(validation_data)])
                ELSE ExceptException("validation_add", err[t]))
    /\ UNCHANGED <<shared, locals, fitlog, nobs, evaluation, app>>

\* what the handler of GET /model/info makes of model.get_model_info(): the
\* one of backend/api/main.py assigns [] and 0 to two of its entries
ModelInfoBody(a, model_info) ==
    IF a = "backend"
    THEN [model_info EXCEPT !.calibration_history = << >>,
                            !.validation_data_count = 0]
    ELSE model_info

\* GET /model/info
GetModelInfoResponse(t) ==
    /\ pc[t] = "idle" /\ endpoint = "none"
    /\ Frame(t, "info", "idle", << >>, "none")
    /\ info' = Set(info, t, [validation_data_count |-> Len(validation_data),
                             history_length |-> Len(calibration_history)])
    /\ Answered(Returned("model_info",
                         ModelInfoBody(app,
                            [calibration_history |-> calibration_history,
                             validation_data_count |-> Len(validation_data)])))
    /\ UNCHANGED <<shared, fitlog, nobs, evaluation, app>>

\* the requests of one client after another
NextApi ==
    \/ PostPredict(MainThread) \/ PredictRead(MainThread)
    \/ PredictRespond(MainThread)
    \/ PostCalibrate(MainThread) \/ FitBody(MainThread)
    \/ PostCalibrateResponse(MainThread)
    \/ PostValidationAdd(MainThread)
    \/ AddCheck(MainThread) \/ RetrainCheck(MainThread)
    \/ RetrainFrame(MainThread) \/ AddClear(MainThread)
    \/ PostValidationAddResponse(MainThread)
    \/ GetModelInfoResponse(MainThread)

SpecApi == InitApi /\ [][NextApi]_vars

(***************************************************************************)
(* C27: the success field of the response of POST /calibrate is the        *)
(* success flag of the record the calibration has appended.                *)
(***************************************************************************)
C27_ResponseSuccessIsRecordSuccess ==
    (response.endpoint = "calibrate" /\ response.status = 200) =>
       response.body.success = Last(calibration_history).success

(***************************************************************************)
(* C28: the response of GET /model/info carries the model's calibration    *)
(* history and the length of its validation buffer.                        *)
(***************************************************************************)
C28_ModelInfoIsCurrent ==
    (response.endpoint = "model_info" /\ response.status = 200) =>
       /\ response.body.calibration_history = calibration_history
       /\ response.body.validation_data_count = Len(validation_data)

(***************************************************************************)
(* C29: a request that input validation rejects, or a calibration request  *)
(* without a valid row, is answered with status 400.                       *)
(***************************************************************************)
C29_RejectionIs400 ==
    (response.status # 0 /\ response.raised = "HTTPException(400)") =>
       response.status = 400

====
